---- MODULE Spec2Model ----
(***************************************************************************)
(* Model of the NFL data export scripts:                                   *)
(*   src/update_data.py      the four-stage export pipeline                *)
(*   src/old/old_update.py   the earlier, unguarded variant of it          *)
(*   src/wrap.py             NFLDataWrapper.calculate_fantasy_points and   *)
(*                           NFLDataWrapper.aggregate_player_stats         *)
(* A table (pandas / polars DataFrame) is [cols, rows]: the set of column  *)
(* names and the sequence of rows, each row a function from cols to cell   *)
(* values.  Cells of the pipeline tables are strings; Null is the missing  *)
(* value (NaN / None).                                                     *)
(***************************************************************************)
EXTENDS Integers, Sequences, FiniteSets, TLC

VARIABLES
    now,            \* wall clock read by datetime.now(): [year, month]
    lib,            \* what the statistics library returns in this run
    dir_exists,     \* os.path.exists(DATA_DIR)
    pc,             \* position of the running script
    current_year,   \* the season
    pbp, ngs_pass, ngs_rush, ngs_rec, contracts, fantasy,   \* fetched tables
    files,          \* artifacts written in this run: name -> table
    calls,          \* the library calls made, in order: <<function, season>>
    events,         \* what the run did, in order: <<kind, name, result>>
    pbp_lite, rosters,  \* tables of old_update.py only
    pbp_df, player_df,  \* arguments of the NFLDataWrapper method under call
    wpc,                \* "call", then "returned" or "raised"
    returned            \* the frame the method returned

vars == <<now, lib, dir_exists, pc, current_year, pbp, ngs_pass, ngs_rush,
          ngs_rec, contracts, fantasy, files, calls, events, pbp_lite, rosters,
          pbp_df, player_df, wpc, returned>>

\* the variables of wrap.py
wrapVars == <<pbp_df, player_df, wpc, returned>>

\* the variables of the two scripts
scriptVars == <<now, lib, dir_exists, pc, current_year, pbp, ngs_pass, ngs_rush,
                ngs_rec, contracts, fantasy, files, calls, events, pbp_lite, rosters>>

\* the variables update_data.py does not have
others == <<pbp_lite, rosters, wrapVars>>

----------------------------------------------------------------------------
(* Bounds of the model *)

MaxRows == 2
MaxNgsRows == 1
NumYears == 1

FirstYear == 2024
Years == FirstYear .. (FirstYear + NumYears - 1)
Months == 1 .. 12

----------------------------------------------------------------------------
(* Tables *)

Null == "null"

NoTable == [cols |-> {}, rows |-> <<>>]

RECURSIVE SeqsUpTo(_, _)
SeqsUpTo(S, n) ==
    IF n = 0 THEN {<<>>}
    ELSE LET shorter == SeqsUpTo(S, n - 1)
         IN  shorter \cup {Append(s, x) : s \in {t \in shorter : Len(t) = n - 1}, x \in S}

analytics_cols ==
    {"game_id", "week", "posteam", "defteam", "qtr", "down", "ydstogo",
     "play_type", "epa", "wpa", "cpoe", "success", "cp", "xyac_mean_yardage"}

gruden_cols ==
    {"game_id", "week", "posteam", "defteam", "desc",
     "play_type", "yards_gained", "touchdown", "fumble", "interception"}

gm_cols ==
    {"player", "position", "team", "cols", "avg_salary", "guaranteed", "expires", "cap_hit"}

\* pbp[cols]: the KeyError of a missing column is the guard CanSelect
CanSelect(t, cols) == cols \subseteq t.cols

\* mutation: the column list is ignored
Select_AllCols(t, cols) == t

Select(t, cols) ==
    [cols |-> cols,
     rows |-> [i \in DOMAIN t.rows |-> [c \in cols |-> t.rows[i][c]]]]

\* df.dropna(subset=...)
Dropna(t, subset) ==
    [cols |-> t.cols,
     rows |-> SelectSeq(t.rows, LAMBDA r : \A c \in subset : r[c] # Null)]

\* mutation: a null is_active counts as active
ActiveOnly_NotFalse(t) ==
    [cols |-> t.cols,
     rows |-> SelectSeq(t.rows, LAMBDA r : r["is_active"] # "False")]

\* contracts[contracts['is_active'] == True]
ActiveOnly(t) ==
    [cols |-> t.cols,
     rows |-> SelectSeq(t.rows, LAMBDA r : r["is_active"] = "True")]

\* one frame of pd.concat: reindexed to the union of the columns
Reindex(t, cols) ==
    [i \in DOMAIN t.rows |-> [c \in cols |-> IF c \in t.cols THEN t.rows[i][c] ELSE Null]]

\* mutation: the frames are concatenated in another order
Concat_Swapped(a, b, c) ==
    LET cols == a.cols \cup b.cols \cup c.cols
    IN  [cols |-> cols,
         rows |-> Reindex(b, cols) \o Reindex(a, cols) \o Reindex(c, cols)]

\* pd.concat([a, b, c], ignore_index=True)
Concat(a, b, c) ==
    LET cols == a.cols \cup b.cols \cup c.cols
    IN  [cols |-> cols,
         rows |-> Reindex(a, cols) \o Reindex(b, cols) \o Reindex(c, cols)]

\* current_date.year if current_date.month > 2 else current_date.year - 1
Season(d) == IF d.month > 2 THEN d.year ELSE d.year - 1

----------------------------------------------------------------------------
(* What the library can return *)

Tags == {"a", "b"}

PbpCols == analytics_cols \cup gruden_cols \cup {"play_id"}
PbpSchemas == {PbpCols, PbpCols \ {"cpoe"}, PbpCols \ {"desc"}}
PbpRow(cols, tag, epa) ==
    [c \in cols |-> IF c = "epa" THEN epa ELSE IF c = "game_id" THEN tag ELSE c]
PbpTables ==
    UNION {{[cols |-> cols, rows |-> s] :
              s \in SeqsUpTo({PbpRow(cols, g, e) : g \in Tags, e \in {Null, "0.3", "-1.2"}}, MaxRows)}
           : cols \in PbpSchemas}
PbpDefault ==
    [cols |-> PbpCols,
     rows |-> <<PbpRow(PbpCols, "a", "0.3"), PbpRow(PbpCols, "b", Null)>>]

NgsCols(kind) ==
    {"player_display_name"} \cup
    (CASE kind = "passing"   -> {"avg_time_to_throw", "aggressiveness"}
       [] kind = "rushing"   -> {"efficiency"}
       [] kind = "receiving" -> {"avg_separation"})
NgsRow(kind, tag) ==
    [c \in NgsCols(kind) |-> IF c = "player_display_name" THEN tag ELSE kind]
NgsTables(kind) ==
    {[cols |-> NgsCols(kind), rows |-> s] :
        s \in SeqsUpTo({NgsRow(kind, g) : g \in Tags}, MaxNgsRows)}
NgsDefault(kind) == [cols |-> NgsCols(kind), rows |-> <<NgsRow(kind, "a")>>]

ContractCols == {"player", "position", "team", "avg_salary", "guaranteed", "is_active", "otc_id"}
ContractSchemas == {ContractCols, ContractCols \ {"is_active"}}
ContractRow(cols, tag, active) ==
    [c \in cols |-> IF c = "is_active" THEN active ELSE IF c = "player" THEN tag ELSE c]
ContractTables ==
    UNION {{[cols |-> cols, rows |-> s] :
              s \in SeqsUpTo({ContractRow(cols, g, a) : g \in Tags, a \in {"True", "False", Null}}, MaxRows)}
           : cols \in ContractSchemas}
ContractDefault ==
    [cols |-> ContractCols,
     rows |-> <<ContractRow(ContractCols, "a", "True"), ContractRow(ContractCols, "b", "False")>>]

FantasyCols == {"player", "season", "fantasy_points_ppr"}
FantasyRow(tag) == [c \in FantasyCols |-> IF c = "player" THEN tag ELSE c]
FantasyTables ==
    {[cols |-> FantasyCols, rows |-> s] : s \in SeqsUpTo({FantasyRow(g) : g \in Tags}, MaxRows)}
FantasyDefault == [cols |-> FantasyCols, rows |-> <<FantasyRow("a")>>]

Ok(t) == [ok |-> TRUE, table |-> t]
Fails == [ok |-> FALSE, table |-> NoTable]

DefaultLib ==
    [pbp |-> Ok(PbpDefault), passing |-> Ok(NgsDefault("passing")),
     rushing |-> Ok(NgsDefault("rushing")), receiving |-> Ok(NgsDefault("receiving")),
     contracts |-> Ok(ContractDefault), fantasy |-> Ok(FantasyDefault)]

\* every combination of fetch failures, over the default tables
FailureLibs ==
    {[s \in DOMAIN DefaultLib |-> IF s \in F THEN Fails ELSE DefaultLib[s]] :
        F \in SUBSET (DOMAIN DefaultLib)}

\* every table of one stage, the other stages on their default tables
TableLibs ==
    {[DefaultLib EXCEPT !.pbp = Ok(t)] : t \in PbpTables}
    \cup {[DefaultLib EXCEPT !.passing = Ok(p), !.rushing = Ok(r), !.receiving = Ok(c)] :
            p \in NgsTables("passing"), r \in NgsTables("rushing"), c \in NgsTables("receiving")}
    \cup {[DefaultLib EXCEPT !.contracts = Ok(t)] : t \in ContractTables}
    \cup {[DefaultLib EXCEPT !.fantasy = Ok(t)] : t \in FantasyTables}

----------------------------------------------------------------------------
(* src/update_data.py *)

\* no NFLDataWrapper method is under call
WrapIdle ==
    /\ pbp_df = NoTable /\ player_df = NoTable
    /\ wpc = "idle"
    /\ returned = NoTable

Log(kind, name, result) == events' = Append(events, <<kind, name, result>>)

LogAll(es) == events' = events \o es

Call(fn, season) == calls' = Append(calls, <<fn, season>>)

WriteFile(name, t) ==
    files' = [n \in DOMAIN files \cup {name} |-> IF n = name THEN t ELSE files[n]]

Init ==
    /\ now \in [year : Years, month : Months]
    /\ \/ lib \in FailureLibs
       \/ lib \in TableLibs /\ now.month = 3 /\ now.year = FirstYear
    /\ dir_exists \in BOOLEAN
    /\ pc = "season"
    /\ current_year = 0
    /\ pbp = NoTable /\ ngs_pass = NoTable /\ ngs_rush = NoTable /\ ngs_rec = NoTable
    /\ contracts = NoTable /\ fantasy = NoTable
    /\ files = <<>>
    /\ calls = <<>>
    /\ events = <<>>
    /\ pbp_lite = NoTable /\ rosters = NoTable
    /\ WrapIdle

\* lines 8-9
ResolveSeason ==
    /\ pc = "season"
    /\ current_year' = Season(now)
    /\ pc' = "mkdir"
    /\ UNCHANGED <<others, now, lib, dir_exists, pbp, ngs_pass, ngs_rush, ngs_rec, contracts,
                   fantasy, files, calls, events>>

\* lines 13-16: os.makedirs may raise, and nothing catches it
MakeDataDir ==
    /\ pc = "mkdir"
    /\ \/ /\ dir_exists
          /\ pc' = "pbp"
          /\ UNCHANGED <<dir_exists, events>>
       \/ /\ ~dir_exists
          /\ dir_exists' = TRUE
          /\ pc' = "pbp"
          /\ Log("makedirs", "data", "ok")
       \/ /\ ~dir_exists
          /\ pc' = "crashed"
          /\ Log("makedirs", "data", "raise")
          /\ UNCHANGED dir_exists
    /\ UNCHANGED <<others, now, lib, current_year, pbp, ngs_pass, ngs_rush, ngs_rec, contracts,
                   fantasy, files, calls>>

\* lines 19-21, 44-45
FetchPbp ==
    /\ pc = "pbp"
    /\ Call("import_pbp_data", current_year)
    /\ \/ /\ lib.pbp.ok
          /\ pbp' = lib.pbp.table
          /\ LogAll(<<<<"stage", "pbp", "start">>, <<"fetch", "pbp", "ok">>>>)
          /\ pc' = "analytics"
       \/ /\ ~lib.pbp.ok
          /\ LogAll(<<<<"stage", "pbp", "start">>, <<"fetch", "pbp", "raise">>>>)
          /\ pc' = "ngs"
          /\ UNCHANGED pbp
    /\ UNCHANGED <<others, now, lib, dir_exists, current_year, ngs_pass, ngs_rush, ngs_rec,
                   contracts, fantasy, files>>

\* lines 25-32, 44-45: a KeyError or a failed write leaves the try block
ExportAnalytics ==
    /\ pc = "analytics"
    /\ \/ /\ ~CanSelect(pbp, analytics_cols)
          /\ Log("filter", "analytics", "raise")
          /\ pc' = "ngs"
          /\ UNCHANGED files
       \/ /\ CanSelect(pbp, analytics_cols)
          /\ LogAll(<<<<"filter", "analytics", "ok">>, <<"to_csv", "analytics", "raise">>>>)
          /\ pc' = "ngs"
          /\ UNCHANGED files
       \/ /\ CanSelect(pbp, analytics_cols)
          /\ WriteFile("agent_analytics_kb.csv", Dropna(Select(pbp, analytics_cols), {"epa"}))
          /\ LogAll(<<<<"filter", "analytics", "ok">>, <<"to_csv", "analytics", "ok">>>>)
          /\ pc' = "gruden"
    /\ UNCHANGED <<others, now, lib, dir_exists, current_year, pbp, ngs_pass, ngs_rush, ngs_rec,
                   contracts, fantasy, calls>>

\* lines 36-45
ExportGruden ==
    /\ pc = "gruden"
    /\ \/ /\ ~CanSelect(pbp, gruden_cols)
          /\ Log("filter", "gruden", "raise")
          /\ UNCHANGED files
       \/ /\ CanSelect(pbp, gruden_cols)
          /\ LogAll(<<<<"filter", "gruden", "ok">>, <<"to_csv", "gruden", "raise">>>>)
          /\ UNCHANGED files
       \/ /\ CanSelect(pbp, gruden_cols)
          /\ WriteFile("agent_gruden_kb.csv", Select(pbp, gruden_cols))
          /\ LogAll(<<<<"filter", "gruden", "ok">>, <<"to_csv", "gruden", "ok">>>>)
    /\ pc' = "ngs"
    /\ UNCHANGED <<others, now, lib, dir_exists, current_year, pbp, ngs_pass, ngs_rush, ngs_rec,
                   contracts, fantasy, calls>>

\* lines 48-51, 60-61
FetchNgsPass ==
    /\ pc = "ngs"
    /\ Call("import_ngs_data.passing", current_year)
    /\ \/ /\ lib.passing.ok
          /\ ngs_pass' = lib.passing.table
          /\ LogAll(<<<<"stage", "ngs", "start">>, <<"fetch", "passing", "ok">>>>)
          /\ pc' = "ngs_rush"
       \/ /\ ~lib.passing.ok
          /\ LogAll(<<<<"stage", "ngs", "start">>, <<"fetch", "passing", "raise">>>>)
          /\ pc' = "contracts"
          /\ UNCHANGED ngs_pass
    /\ UNCHANGED <<others, now, lib, dir_exists, current_year, pbp, ngs_rush, ngs_rec,
                   contracts, fantasy, files>>

\* lines 52, 60-61
FetchNgsRush ==
    /\ pc = "ngs_rush"
    /\ Call("import_ngs_data.rushing", current_year)
    /\ \/ /\ lib.rushing.ok
          /\ ngs_rush' = lib.rushing.table
          /\ Log("fetch", "rushing", "ok")
          /\ pc' = "ngs_rec"
       \/ /\ ~lib.rushing.ok
          /\ Log("fetch", "rushing", "raise")
          /\ pc' = "contracts"
          /\ UNCHANGED ngs_rush
    /\ UNCHANGED <<others, now, lib, dir_exists, current_year, pbp, ngs_pass, ngs_rec,
                   contracts, fantasy, files>>

\* lines 53, 60-61
FetchNgsRec ==
    /\ pc = "ngs_rec"
    /\ Call("import_ngs_data.receiving", current_year)
    /\ \/ /\ lib.receiving.ok
          /\ ngs_rec' = lib.receiving.table
          /\ Log("fetch", "receiving", "ok")
          /\ pc' = "scout"
       \/ /\ ~lib.receiving.ok
          /\ Log("fetch", "receiving", "raise")
          /\ pc' = "contracts"
          /\ UNCHANGED ngs_rec
    /\ UNCHANGED <<others, now, lib, dir_exists, current_year, pbp, ngs_pass, ngs_rush,
                   contracts, fantasy, files>>

\* lines 57-61
ExportScout ==
    /\ pc = "scout"
    /\ \/ /\ WriteFile("agent_scout_kb.csv", Concat(ngs_pass, ngs_rush, ngs_rec))
          /\ Log("to_csv", "scout", "ok")
       \/ /\ Log("to_csv", "scout", "raise")
          /\ UNCHANGED files
    /\ pc' = "contracts"
    /\ UNCHANGED <<others, now, lib, dir_exists, current_year, pbp, ngs_pass, ngs_rush, ngs_rec,
                   contracts, fantasy, calls>>

\* mutation: a failed contracts fetch ends the run's stages
FetchContracts_Abort ==
    /\ pc = "contracts"
    /\ Call("import_contracts", 0)
    /\ \/ /\ lib.contracts.ok
          /\ contracts' = lib.contracts.table
          /\ LogAll(<<<<"stage", "contracts", "start">>, <<"fetch", "contracts", "ok">>>>)
          /\ pc' = "gm"
       \/ /\ ~lib.contracts.ok
          /\ LogAll(<<<<"stage", "contracts", "start">>, <<"fetch", "contracts", "raise">>>>)
          /\ pc' = "complete"
          /\ UNCHANGED contracts
    /\ UNCHANGED <<others, now, lib, dir_exists, current_year, pbp, ngs_pass, ngs_rush, ngs_rec,
                   fantasy, files>>

\* lines 64-67, 77-78: import_contracts() takes no season
FetchContracts ==
    /\ pc = "contracts"
    /\ Call("import_contracts", 0)
    /\ \/ /\ lib.contracts.ok
          /\ contracts' = lib.contracts.table
          /\ LogAll(<<<<"stage", "contracts", "start">>, <<"fetch", "contracts", "ok">>>>)
          /\ pc' = "gm"
       \/ /\ ~lib.contracts.ok
          /\ LogAll(<<<<"stage", "contracts", "start">>, <<"fetch", "contracts", "raise">>>>)
          /\ pc' = "fantasy"
          /\ UNCHANGED contracts
    /\ UNCHANGED <<others, now, lib, dir_exists, current_year, pbp, ngs_pass, ngs_rush, ngs_rec,
                   fantasy, files>>

\* lines 69-78: gm_cols is assigned and never used; the active rows are
\* written with every column of the contracts table
ExportGm ==
    /\ pc = "gm"
    /\ \/ /\ "is_active" \notin contracts.cols
          /\ Log("filter", "gm", "raise")
          /\ UNCHANGED files
       \/ /\ "is_active" \in contracts.cols
          /\ LogAll(<<<<"filter", "gm", "ok">>, <<"to_csv", "gm", "raise">>>>)
          /\ UNCHANGED files
       \/ /\ "is_active" \in contracts.cols
          /\ WriteFile("agent_gm_kb.csv", ActiveOnly(contracts))
          /\ LogAll(<<<<"filter", "gm", "ok">>, <<"to_csv", "gm", "ok">>>>)
    /\ pc' = "fantasy"
    /\ UNCHANGED <<others, now, lib, dir_exists, current_year, pbp, ngs_pass, ngs_rush, ngs_rec,
                   contracts, fantasy, calls>>

\* lines 81-83, 86-87
FetchFantasy ==
    /\ pc = "fantasy"
    /\ Call("import_seasonal_pfr", current_year)
    /\ \/ /\ lib.fantasy.ok
          /\ fantasy' = lib.fantasy.table
          /\ LogAll(<<<<"stage", "fantasy", "start">>, <<"fetch", "fantasy", "ok">>>>)
          /\ pc' = "fantasy_export"
       \/ /\ ~lib.fantasy.ok
          /\ LogAll(<<<<"stage", "fantasy", "start">>, <<"fetch", "fantasy", "raise">>>>)
          /\ pc' = "complete"
          /\ UNCHANGED fantasy
    /\ UNCHANGED <<others, now, lib, dir_exists, current_year, pbp, ngs_pass, ngs_rush, ngs_rec,
                   contracts, files>>

\* lines 84-87
ExportFantasy ==
    /\ pc = "fantasy_export"
    /\ \/ /\ WriteFile("agent_fantasy_kb.csv", fantasy)
          /\ Log("to_csv", "fantasy", "ok")
       \/ /\ Log("to_csv", "fantasy", "raise")
          /\ UNCHANGED files
    /\ pc' = "complete"
    /\ UNCHANGED <<others, now, lib, dir_exists, current_year, pbp, ngs_pass, ngs_rush, ngs_rec,
                   contracts, fantasy, calls>>

\* line 89, and the normal end of the script
Complete ==
    /\ pc = "complete"
    /\ Log("print", "Update Complete", "ok")
    /\ pc' = "done"
    /\ UNCHANGED <<others, now, lib, dir_exists, current_year, pbp, ngs_pass, ngs_rush, ngs_rec,
                   contracts, fantasy, files, calls>>

Next ==
    \/ ResolveSeason
    \/ MakeDataDir
    \/ FetchPbp
    \/ ExportAnalytics
    \/ ExportGruden
    \/ FetchNgsPass
    \/ FetchNgsRush
    \/ FetchNgsRec
    \/ ExportScout
    \/ FetchContracts
    \/ ExportGm
    \/ FetchFantasy
    \/ ExportFantasy
    \/ Complete

Spec == Init /\ [][Next]_vars

FairSpec == Spec /\ WF_vars(Next)

----------------------------------------------------------------------------
(* src/old/old_update.py: no try block, so any exception ends the run *)

\* datetime.now().year
OldSeason(d) == d.year

pbp_lite_cols == {"game_id", "posteam", "defteam", "desc", "epa", "cpoe"}

\* DataFrame.to_csv(path) with the default index=True: the row index is
\* written as a first, unnamed column
WithIndex(t) ==
    [cols |-> t.cols \cup {""},
     rows |-> [i \in DOMAIN t.rows |->
                 [c \in t.cols \cup {""} |-> IF c = "" THEN ToString(i - 1) ELSE t.rows[i][c]]]]

RosterCols == {"player_name", "team", "season"}
RosterDefault == [cols |-> RosterCols, rows |-> <<[c \in RosterCols |-> c]>>]

OldDefaultLib ==
    [pbp |-> Ok(PbpDefault), passing |-> Ok(NgsDefault("passing")),
     rosters |-> Ok(RosterDefault), contracts |-> Ok(ContractDefault),
     fantasy |-> Ok(FantasyDefault)]

OldFailureLibs ==
    {[s \in DOMAIN OldDefaultLib |-> IF s \in F THEN Fails ELSE OldDefaultLib[s]] :
        F \in SUBSET (DOMAIN OldDefaultLib)}

OldTableLibs ==
    {[OldDefaultLib EXCEPT !.pbp = Ok(t)] : t \in PbpTables}
    \cup {[OldDefaultLib EXCEPT !.passing = Ok(t)] : t \in NgsTables("passing")}

OldInit ==
    /\ now \in [year : Years, month : Months]
    /\ \/ lib \in OldFailureLibs
       \/ lib \in OldTableLibs /\ now.month = 3 /\ now.year = FirstYear
    /\ dir_exists \in BOOLEAN
    /\ pc = "old_season"
    /\ current_year = 0
    /\ pbp = NoTable /\ ngs_pass = NoTable /\ ngs_rush = NoTable /\ ngs_rec = NoTable
    /\ contracts = NoTable /\ fantasy = NoTable
    /\ files = <<>>
    /\ calls = <<>>
    /\ events = <<>>
    /\ pbp_lite = NoTable /\ rosters = NoTable
    /\ WrapIdle

\* line 7
OldResolveSeason ==
    /\ pc = "old_season"
    /\ current_year' = OldSeason(now)
    /\ pc' = "old_pbp"
    /\ UNCHANGED <<now, lib, dir_exists, pbp, ngs_pass, ngs_rush, ngs_rec, contracts,
                   fantasy, files, calls, events, pbp_lite, rosters, wrapVars>>

\* line 8
OldFetchPbp ==
    /\ pc = "old_pbp"
    /\ Call("import_pbp_data", current_year)
    /\ \/ /\ lib.pbp.ok
          /\ pbp' = lib.pbp.table
          /\ Log("fetch", "pbp", "ok")
          /\ pc' = "old_lite"
       \/ /\ ~lib.pbp.ok
          /\ Log("fetch", "pbp", "raise")
          /\ pc' = "crashed"
          /\ UNCHANGED pbp
    /\ UNCHANGED <<now, lib, dir_exists, current_year, ngs_pass, ngs_rush, ngs_rec,
                   contracts, fantasy, files, pbp_lite, rosters, wrapVars>>

\* line 10
OldSelectLite ==
    /\ pc = "old_lite"
    /\ \/ /\ CanSelect(pbp, pbp_lite_cols)
          /\ pbp_lite' = Select(pbp, pbp_lite_cols)
          /\ Log("filter", "pbp_lite", "ok")
          /\ pc' = "old_ngs"
       \/ /\ ~CanSelect(pbp, pbp_lite_cols)
          /\ Log("filter", "pbp_lite", "raise")
          /\ pc' = "crashed"
          /\ UNCHANGED pbp_lite
    /\ UNCHANGED <<now, lib, dir_exists, current_year, pbp, ngs_pass, ngs_rush, ngs_rec,
                   contracts, fantasy, files, calls, rosters, wrapVars>>

\* line 14: ngs_passing
OldFetchNgs ==
    /\ pc = "old_ngs"
    /\ Call("import_ngs_data.passing", current_year)
    /\ \/ /\ lib.passing.ok
          /\ ngs_pass' = lib.passing.table
          /\ Log("fetch", "passing", "ok")
          /\ pc' = "old_rosters"
       \/ /\ ~lib.passing.ok
          /\ Log("fetch", "passing", "raise")
          /\ pc' = "crashed"
          /\ UNCHANGED ngs_pass
    /\ UNCHANGED <<now, lib, dir_exists, current_year, pbp, ngs_rush, ngs_rec,
                   contracts, fantasy, files, pbp_lite, rosters, wrapVars>>

\* line 18
OldFetchRosters ==
    /\ pc = "old_rosters"
    /\ Call("import_seasonal_rosters", current_year)
    /\ \/ /\ lib.rosters.ok
          /\ rosters' = lib.rosters.table
          /\ Log("fetch", "rosters", "ok")
          /\ pc' = "old_contracts"
       \/ /\ ~lib.rosters.ok
          /\ Log("fetch", "rosters", "raise")
          /\ pc' = "crashed"
          /\ UNCHANGED rosters
    /\ UNCHANGED <<now, lib, dir_exists, current_year, pbp, ngs_pass, ngs_rush, ngs_rec,
                   contracts, fantasy, files, pbp_lite, wrapVars>>

\* line 19
OldFetchContracts ==
    /\ pc = "old_contracts"
    /\ Call("import_contracts", 0)
    /\ \/ /\ lib.contracts.ok
          /\ contracts' = lib.contracts.table
          /\ Log("fetch", "contracts", "ok")
          /\ pc' = "old_fantasy"
       \/ /\ ~lib.contracts.ok
          /\ Log("fetch", "contracts", "raise")
          /\ pc' = "crashed"
          /\ UNCHANGED contracts
    /\ UNCHANGED <<now, lib, dir_exists, current_year, pbp, ngs_pass, ngs_rush, ngs_rec,
                   fantasy, files, pbp_lite, rosters, wrapVars>>

\* line 23
OldFetchFantasy ==
    /\ pc = "old_fantasy"
    /\ Call("import_seasonal_pfr", current_year)
    /\ \/ /\ lib.fantasy.ok
          /\ fantasy' = lib.fantasy.table
          /\ Log("fetch", "fantasy", "ok")
          /\ pc' = "old_save_pbp"
       \/ /\ ~lib.fantasy.ok
          /\ Log("fetch", "fantasy", "raise")
          /\ pc' = "crashed"
          /\ UNCHANGED fantasy
    /\ UNCHANGED <<now, lib, dir_exists, current_year, pbp, ngs_pass, ngs_rush, ngs_rec,
                   contracts, files, pbp_lite, rosters, wrapVars>>

\* line 26: the script does not create data/, and a failed write ends the run
OldSavePbp ==
    /\ pc = "old_save_pbp"
    /\ \/ /\ dir_exists
          /\ WriteFile("play_by_play.csv", WithIndex(pbp_lite))
          /\ Log("to_csv", "play_by_play", "ok")
          /\ pc' = "old_save_ngs"
       \/ /\ Log("to_csv", "play_by_play", "raise")
          /\ pc' = "crashed"
          /\ UNCHANGED files
    /\ UNCHANGED <<now, lib, dir_exists, current_year, pbp, ngs_pass, ngs_rush, ngs_rec,
                   contracts, fantasy, calls, pbp_lite, rosters, wrapVars>>

\* line 27
OldSaveNgs ==
    /\ pc = "old_save_ngs"
    /\ \/ /\ dir_exists
          /\ WriteFile("next_gen_stats.csv", WithIndex(ngs_pass))
          /\ Log("to_csv", "next_gen_stats", "ok")
          /\ pc' = "old_print"
       \/ /\ Log("to_csv", "next_gen_stats", "raise")
          /\ pc' = "crashed"
          /\ UNCHANGED files
    /\ UNCHANGED <<now, lib, dir_exists, current_year, pbp, ngs_pass, ngs_rush, ngs_rec,
                   contracts, fantasy, calls, pbp_lite, rosters, wrapVars>>

\* line 28
OldDone ==
    /\ pc = "old_print"
    /\ Log("print", "Data successfully updated!", "ok")
    /\ pc' = "done"
    /\ UNCHANGED <<now, lib, dir_exists, current_year, pbp, ngs_pass, ngs_rush, ngs_rec,
                   contracts, fantasy, files, calls, pbp_lite, rosters, wrapVars>>

OldNext ==
    \/ OldResolveSeason
    \/ OldFetchPbp
    \/ OldSelectLite
    \/ OldFetchNgs
    \/ OldFetchRosters
    \/ OldFetchContracts
    \/ OldFetchFantasy
    \/ OldSavePbp
    \/ OldSaveNgs
    \/ OldDone

SpecOld == OldInit /\ [][OldNext]_vars

----------------------------------------------------------------------------
(* Float64 arithmetic of the scoring formula.                              *)
(* A number is <<I, f1, f2, f3>>, standing for                             *)
(*     I + f1 / 2^19 + f2 / 2^38 + f3 / 2^57    with 0 <= f1, f2, f3 < 2^19 *)
(* (I is the floor, also of a negative number).  Every float64 between     *)
(* 2^-5 and 2^15 in magnitude is such a number, and so are the sums and    *)
(* the integer multiples of such numbers, which makes the exact result of  *)
(* an operation a number too; Round53 then rounds it as IEEE 754 does, to  *)
(* 53 significant bits, ties to even.  A null cell is <<>>.                *)

Limb == 2^19

NullNum == <<>>

Num(n) == <<n, 0, 0, 0>>

Norm(I, a1, a2, a3) ==
    LET f3 == a3 % Limb
        b2 == a2 + (a3 \div Limb)
        f2 == b2 % Limb
        b1 == a1 + (b2 \div Limb)
        f1 == b1 % Limb
    IN  <<I + (b1 \div Limb), f1, f2, f3>>

Add(x, y) == Norm(x[1] + y[1], x[2] + y[2], x[3] + y[3], x[4] + y[4])

MulInt(x, k) == Norm(x[1] * k, x[2] * k, x[3] * k, x[4] * k)

Neg(x) == Norm(-x[1], -x[2], -x[3], -x[4])

RECURSIVE Log2(_)
Log2(n) == IF n < 2 THEN 0 ELSE 1 + Log2(n \div 2)

\* the binary exponent of a positive number m; -99 stands for 'below 2^-4'
Exponent(m) ==
    IF m[1] >= 1 THEN Log2(m[1])
    ELSE IF m[2] >= 2^18 THEN -1
    ELSE IF m[2] >= 2^17 THEN -2
    ELSE IF m[2] >= 2^16 THEN -3
    ELSE IF m[2] >= 2^15 THEN -4
    ELSE -99

\* round to nearest, ties to even, at 53 significant bits: a number of
\* exponent j keeps the multiples of 2^(j-52), so the low j+5 bits go
Round53(x) ==
    IF x = Num(0) THEN x
    ELSE LET j == Exponent(IF x[1] >= 0 THEN x ELSE Neg(x))
         IN  IF j = -99 THEN x
             ELSE LET d == j + 5
                      p == 2^d
                      r == x[4] % p
                      odd == IF d < 19 THEN (x[4] \div p) % 2 ELSE x[3] % 2
                      up == r > p \div 2 \/ (r = p \div 2 /\ odd = 1)
                  IN  Norm(x[1], x[2], x[3], x[4] - r + (IF up THEN p ELSE 0))

\* float64 addition
FAdd(x, y) == Round53(Add(x, y))

\* float64 product of the number x and the integer k
FMul(x, k) == Round53(MulInt(x, k))

\* the float64 literals 0.04 = 5764607523034235 / 2^57 and
\* 0.1 = 7205759403792794 / 2^56
Float004 == <<0, 20971, 272629, 398459>>
Float01 == <<0, 52428, 419430, 209716>>

----------------------------------------------------------------------------
(* src/wrap.py: NFLDataWrapper.calculate_fantasy_points *)

\* mutation: a rushing touchdown is weighted as a passing one
fantasy_rules_RushTd4 ==
    [passing_yards |-> Float004, passing_tds |-> Num(4), interceptions |-> Num(-2),
     rushing_yards |-> Float01, rushing_tds |-> Num(4),
     receiving_yards |-> Float01, receiving_tds |-> Num(6), fumbles_lost |-> Num(-2)]

fantasy_rules ==
    [passing_yards |-> Float004, passing_tds |-> Num(4), interceptions |-> Num(-2),
     rushing_yards |-> Float01, rushing_tds |-> Num(6),
     receiving_yards |-> Float01, receiving_tds |-> Num(6), fumbles_lost |-> Num(-2)]

\* the terms in the order the expression adds them
TermOrder ==
    <<"passing_yards", "passing_tds", "interceptions", "rushing_yards", "rushing_tds",
      "receiving_yards", "receiving_tds", "fumbles_lost">>

ScoreFields == DOMAIN fantasy_rules

\* pl.col(f) * fantasy_rules[f], the cell an integer
Term(row, f) == FMul(fantasy_rules[f], row[f][1])

\* t1 + t2 + ... + tn, summed left to right over the fields of order
RECURSIVE SumTerms(_, _, _)
SumTerms(row, order, n) ==
    IF n = 1 THEN Term(row, order[1])
    ELSE FAdd(SumTerms(row, order, n - 1), Term(row, order[n]))

\* mutation: a null operand counts as zero
FantasyPoints_NullAsZero(row) ==
    SumTerms([f \in ScoreFields |-> IF row[f] = NullNum THEN Num(0) ELSE row[f]],
             TermOrder, Len(TermOrder))

\* the fantasy_points expression on one row: null if any operand is null
FantasyPoints(row) ==
    IF \E f \in ScoreFields : row[f] = NullNum THEN NullNum
    ELSE SumTerms(row, TermOrder, Len(TermOrder))

\* pbp_df.with_columns(<expression>.alias("fantasy_points"))
WithFantasyPoints(df) ==
    [cols |-> df.cols \cup {"fantasy_points"},
     rows |-> [i \in DOMAIN df.rows |->
                 [c \in df.cols \cup {"fantasy_points"} |->
                     IF c = "fantasy_points" THEN FantasyPoints(df.rows[i]) ELSE df.rows[i][c]]]]

\* lines 155-184; pl.col of a column the frame lacks raises ColumnNotFoundError
CalculateFantasyPoints ==
    /\ wpc = "call"
    /\ \/ /\ ScoreFields \subseteq pbp_df.cols
          /\ returned' = WithFantasyPoints(pbp_df)
          /\ wpc' = "returned"
       \/ /\ ~(ScoreFields \subseteq pbp_df.cols)
          /\ wpc' = "raised"
          /\ UNCHANGED returned
    /\ UNCHANGED <<pbp_df, player_df, scriptVars>>

(* The frames calculate_fantasy_points is called with *)

MaxYards == 3
MaxCount == 1

YardValues == (-1 .. MaxYards) \cup {100}
CountValues == 0 .. MaxCount
YardFields == {"passing_yards", "rushing_yards", "receiving_yards"}

PlayCols == ScoreFields \cup {"player_id"}

PlayRow(stats) == [c \in PlayCols |-> IF c = "player_id" THEN "p1" ELSE stats[c]]

FullRows ==
    {PlayRow([f \in ScoreFields |-> Num(v[f])]) :
        v \in {w \in [ScoreFields -> YardValues \cup CountValues] :
                  \A f \in ScoreFields : f \notin YardFields => w[f] \in CountValues}}

ZeroRow == PlayRow([f \in ScoreFields |-> Num(0)])

\* 100 passing yards and 1 passing touchdown
ExampleRow == [ZeroRow EXCEPT !["passing_yards"] = Num(100), !["passing_tds"] = Num(1)]

\* 1 passing yard, 1 rushing yard, 3 receiving yards
RoundingRow ==
    [ZeroRow EXCEPT !["passing_yards"] = Num(1), !["rushing_yards"] = Num(1),
                    !["receiving_yards"] = Num(3)]

NullRows ==
    {[r EXCEPT ![f] = NullNum] : r \in {ZeroRow, ExampleRow}, f \in ScoreFields}
    \cup {PlayRow([f \in ScoreFields |-> NullNum])}

SmallRows == NullRows \cup {ZeroRow, ExampleRow, RoundingRow}

\* a frame without the columns of gone
Without(df, gone) ==
    [cols |-> df.cols \ gone,
     rows |-> [i \in DOMAIN df.rows |-> [c \in df.cols \ gone |-> df.rows[i][c]]]]

PlayFrames ==
    {[cols |-> PlayCols, rows |-> <<r>>] : r \in FullRows \cup NullRows}
    \cup {[cols |-> PlayCols, rows |-> s] : s \in SeqsUpTo(SmallRows, 2)}
    \cup {Without([cols |-> PlayCols, rows |-> s], {f}) :
            s \in SeqsUpTo({ZeroRow, ExampleRow}, 1), f \in ScoreFields}
    \cup {Without([cols |-> PlayCols, rows |-> <<ZeroRow>>], ScoreFields)}

ScriptsIdle ==
    /\ now = [year |-> FirstYear, month |-> 1]
    /\ lib = DefaultLib
    /\ dir_exists = FALSE
    /\ pc = "idle"
    /\ current_year = 0
    /\ pbp = NoTable /\ ngs_pass = NoTable /\ ngs_rush = NoTable /\ ngs_rec = NoTable
    /\ contracts = NoTable /\ fantasy = NoTable
    /\ files = <<>>
    /\ calls = <<>>
    /\ events = <<>>
    /\ pbp_lite = NoTable /\ rosters = NoTable

FantasyInit ==
    /\ ScriptsIdle
    /\ pbp_df \in PlayFrames
    /\ player_df = NoTable
    /\ wpc = "call"
    /\ returned = NoTable

SpecFantasy == FantasyInit /\ [][CalculateFantasyPoints]_vars

----------------------------------------------------------------------------
(* src/wrap.py: NFLDataWrapper.aggregate_player_stats *)

\* mutation: the groups are keyed by the player identifier alone
KeyOf_IdOnly(row) == <<row["player_id"], "A">>

\* group_by(["player_id", "player_name"]): null is a key value like any other
KeyOf(row) == <<row["player_id"], row["player_name"]>>

Keys(df) == {KeyOf(df.rows[i]) : i \in DOMAIN df.rows}

\* pl.col(c).sum() over the rows of a group: nulls are skipped, no value gives 0
RECURSIVE SumCol(_, _, _)
SumCol(rows, c, n) ==
    IF n = 0 THEN Num(0)
    ELSE IF rows[n][c] = NullNum THEN SumCol(rows, c, n - 1)
    ELSE FAdd(SumCol(rows, c, n - 1), rows[n][c])

AggCols ==
    {"player_id", "player_name", "total_fantasy_points", "total_passing_yards",
     "total_rushing_yards", "total_receiving_yards", "plays_involved"}

\* the .agg(...) of one group
GroupRow(df, key) ==
    LET members == SelectSeq(df.rows, LAMBDA r : KeyOf(r) = key)
        n == Len(members)
    IN  [player_id |-> key[1], player_name |-> key[2],
         total_fantasy_points |-> SumCol(members, "fantasy_points", n),
         total_passing_yards |-> SumCol(members, "passing_yards", n),
         total_rushing_yards |-> SumCol(members, "rushing_yards", n),
         total_receiving_yards |-> SumCol(members, "receiving_yards", n),
         plays_involved |-> n]

\* group_by(...).agg(...): one row per key; polars leaves the order of the
\* groups open, so order is any enumeration of the keys
GroupBy(df, order) ==
    [cols |-> AggCols, rows |-> [i \in DOMAIN order |-> GroupRow(df, order[i])]]

Enumerations(S) ==
    {s \in [1 .. Cardinality(S) -> S] : \A i, j \in DOMAIN s : s[i] = s[j] => i = j}

\* mutation: an inner join, which drops the left rows without a match
JoinedRows_Inner(l, right, on) ==
    LET hits == SelectSeq(right.rows, LAMBDA e : l[on] # Null /\ e[on] = l[on])
        cols == DOMAIN l \cup (right.cols \ {on})
    IN  [k \in DOMAIN hits |-> [c \in cols |-> IF c \in DOMAIN l THEN l[c] ELSE hits[k][c]]]

\* the rows a left row gives: one per entry of right with its key, or one with
\* nulls when there is none; a null key matches nothing
JoinedRows(l, right, on) ==
    LET hits == SelectSeq(right.rows, LAMBDA e : l[on] # Null /\ e[on] = l[on])
        cols == DOMAIN l \cup (right.cols \ {on})
    IN  IF hits = <<>>
        THEN <<[c \in cols |-> IF c \in DOMAIN l THEN l[c] ELSE Null]>>
        ELSE [k \in DOMAIN hits |-> [c \in cols |-> IF c \in DOMAIN l THEN l[c] ELSE hits[k][c]]]

RECURSIVE JoinFrom(_, _, _, _)
JoinFrom(left, right, on, i) ==
    IF i > Len(left.rows) THEN <<>>
    ELSE JoinedRows(left.rows[i], right, on) \o JoinFrom(left, right, on, i + 1)

\* left.join(right, on=on, how="left")
LeftJoin(left, right, on) ==
    [cols |-> left.cols \cup (right.cols \ {on}),
     rows |-> JoinFrom(left, right, on, 1)]

GroupedCols ==
    {"player_id", "player_name", "fantasy_points", "passing_yards", "rushing_yards",
     "receiving_yards"}

\* lines 186-204; a column the frames lack raises ColumnNotFoundError
AggregatePlayerStats ==
    /\ wpc = "call"
    /\ \/ /\ GroupedCols \subseteq pbp_df.cols /\ "player_id" \in player_df.cols
          /\ \E order \in Enumerations(Keys(pbp_df)) :
                returned' = LeftJoin(GroupBy(pbp_df, order), player_df, "player_id")
          /\ wpc' = "returned"
       \/ /\ ~(GroupedCols \subseteq pbp_df.cols /\ "player_id" \in player_df.cols)
          /\ wpc' = "raised"
          /\ UNCHANGED returned
    /\ UNCHANGED <<pbp_df, player_df, scriptVars>>

(* The frames aggregate_player_stats is called with *)

MaxPlays == 2
MaxDirectory == 2

StatLines ==
    {[fantasy_points |-> Num(2), passing_yards |-> Num(1), rushing_yards |-> Num(0),
      receiving_yards |-> NullNum],
     [fantasy_points |-> Num(3), passing_yards |-> Num(0), rushing_yards |-> Num(2),
      receiving_yards |-> Num(1)]}

ScoredRow(id, name, line) ==
    [c \in GroupedCols |-> IF c = "player_id" THEN id ELSE IF c = "player_name" THEN name ELSE line[c]]

ScoredFrames ==
    {[cols |-> GroupedCols, rows |-> s] :
        s \in SeqsUpTo({ScoredRow(id, name, line) :
                           id \in {"p1", Null}, name \in {"A", "B"}, line \in StatLines}, MaxPlays)}

DirectoryCols == {"player_id", "position"}

Directories ==
    {[cols |-> DirectoryCols, rows |-> s] :
        s \in SeqsUpTo({[player_id |-> "p1", position |-> "QB"],
                        [player_id |-> "p1", position |-> "RB"],
                        [player_id |-> "p2", position |-> "QB"],
                        [player_id |-> Null, position |-> "QB"]}, MaxDirectory)}

AggregateInit ==
    /\ ScriptsIdle
    /\ \/ pbp_df \in ScoredFrames /\ player_df \in Directories
       \/ /\ pbp_df \in {Without(f, {"fantasy_points"}) : f \in ScoredFrames}
          /\ player_df = [cols |-> DirectoryCols, rows |-> <<>>]
    /\ wpc = "call"
    /\ returned = NoTable

SpecAggregate == AggregateInit /\ [][AggregatePlayerStats]_vars

----------------------------------------------------------------------------
(* Properties of update_data.py *)

Range(s) == {s[i] : i \in DOMAIN s}

Happened(kind, name, result) == <<kind, name, result>> \in Range(events)

Lanes == {"analytics", "gruden", "scout", "gm", "fantasy"}

SourcesOf(lane) ==
    CASE lane \in {"analytics", "gruden"} -> {"pbp"}
      [] lane = "scout" -> {"passing", "rushing", "receiving"}
      [] lane = "gm" -> {"contracts"}
      [] lane = "fantasy" -> {"fantasy"}

Fetched(lane) == \A src \in SourcesOf(lane) : Happened("fetch", src, "ok")

Raised(lane) == Happened("filter", lane, "raise") \/ Happened("to_csv", lane, "raise")

Attempted(lane) ==
    \E r \in {"ok", "raise"} : Happened("filter", lane, r) \/ Happened("to_csv", lane, r)

Written(name) == name \in DOMAIN files

\* C1: in a finished run of update_data.py, for distinct lanes A and B whose
\* source fetches succeeded, B is still attempted when A's filter or export raised.
C1_LaneIsolation ==
    pc = "done" =>
        \A A \in Lanes : \A B \in Lanes \ {A} :
            (Fetched(A) /\ Fetched(B) /\ Raised(A)) => Attempted(B)

\* What holds instead: only the gruden lane, which shares the try block of the
\* analytics lane, is lost to another lane's failure.
LaneIsolationButGruden ==
    pc = "done" =>
        \A A \in Lanes : \A B \in Lanes \ {A, "gruden"} :
            (Fetched(A) /\ Fetched(B) /\ Raised(A)) => Attempted(B)

StagesStarted == SelectSeq(events, LAMBDA e : e[1] = "stage")

StageOrder ==
    <<<<"stage", "pbp", "start">>, <<"stage", "ngs", "start">>,
      <<"stage", "contracts", "start">>, <<"stage", "fantasy", "start">>>>

\* C2: whatever fetches fail, the stages are started once each in the order
\* PBP, next-gen, contracts, fantasy, and once the output directory exists the
\* run reaches the final 'Update Complete' step and ends normally.
C2_StagesRunToCompletion ==
    /\ [](StagesStarted = SubSeq(StageOrder, 1, Len(StagesStarted)))
    /\ []((pc = "done") => (StagesStarted = StageOrder /\ Happened("print", "Update Complete", "ok")))
    /\ ((pc = "pbp") ~> (pc = "done"))

C2_Witness ==
    /\ pc = "done"
    /\ Happened("fetch", "pbp", "raise")
    /\ Happened("fetch", "passing", "ok") /\ Happened("fetch", "rushing", "raise")
    /\ Happened("fetch", "contracts", "raise")
    /\ Happened("fetch", "fantasy", "ok")

\* the indices of the rows of t that satisfy keep
Kept(t, keep(_)) == {j \in DOMAIN t.rows : keep(t.rows[j])}

\* out holds exactly the kept rows of t, in t's order, each cut to cols
ExactlyKept(out, t, keep(_), cols) ==
    /\ Len(out.rows) = Cardinality(Kept(t, keep))
    /\ \A j \in Kept(t, keep) :
          LET i == Cardinality({k \in Kept(t, keep) : k <= j})
          IN  /\ DOMAIN out.rows[i] = cols
              /\ \A c \in cols : out.rows[i][c] = t.rows[j][c]

EpaPresent(r) == r["epa"] # Null
IsActive(r) == r["is_active"] = "True"

\* C3: the analytics artifact holds exactly the play-by-play rows whose epa is
\* not null, and the GM artifact exactly the contract rows whose is_active is
\* true, in input order and with the values of the input.
C3_RowPredicates ==
    /\ Written("agent_analytics_kb.csv") =>
          ExactlyKept(files["agent_analytics_kb.csv"], pbp, EpaPresent, analytics_cols)
    /\ Written("agent_gm_kb.csv") =>
          ExactlyKept(files["agent_gm_kb.csv"], contracts, IsActive, contracts.cols)

C3_Witness ==
    /\ Written("agent_analytics_kb.csv")
    /\ Len(files["agent_analytics_kb.csv"].rows) = 1 /\ Len(pbp.rows) = 2
    /\ Written("agent_gm_kb.csv")
    /\ Len(files["agent_gm_kb.csv"].rows) = 1 /\ Len(contracts.rows) = 2
    /\ contracts.rows[1]["is_active"] = Null
    /\ contracts.rows[2]["is_active"] = "True"

ListedLane(lane) ==
    CASE lane = "analytics" -> [file |-> "agent_analytics_kb.csv", list |-> analytics_cols, src |-> pbp]
      [] lane = "gruden"    -> [file |-> "agent_gruden_kb.csv", list |-> gruden_cols, src |-> pbp]
      [] lane = "gm"        -> [file |-> "agent_gm_kb.csv", list |-> gm_cols, src |-> contracts]

\* C4 as claimed: a lane with a column list exports exactly the listed fields
\* that exist in its source table, and an absent listed field does not cost
\* the lane its output.
C4_ListedFieldsThatExist ==
    pc = "done" =>
        \A lane \in {"analytics", "gruden", "gm"} :
            LET L == ListedLane(lane)
            IN  (Fetched(lane) /\ ~Happened("to_csv", lane, "raise")
                   /\ (lane = "gruden" => ~Raised("analytics"))
                   /\ (lane = "gm" => "is_active" \in contracts.cols))
                => (Written(L.file) /\ files[L.file].cols = L.list \cap L.src.cols)

\* C4 as amended: the analytics and gruden artifacts carry exactly the listed
\* fields, which takes every listed field to exist in the play-by-play table:
\* with a listed field absent the lane raises and writes nothing.  The GM
\* artifact carries every field of the contracts table.
C4_ListedFieldsOrFailure ==
    /\ \A lane \in {"analytics", "gruden"} :
          LET L == ListedLane(lane)
          IN  /\ Written(L.file) => (files[L.file].cols = L.list /\ L.list \subseteq pbp.cols)
              /\ (Attempted(lane) /\ ~(L.list \subseteq pbp.cols)) =>
                    (Happened("filter", lane, "raise") /\ ~Written(L.file))
    /\ Written("agent_gm_kb.csv") => files["agent_gm_kb.csv"].cols = contracts.cols

C4_Witness ==
    /\ pc = "done"
    /\ Happened("filter", "gruden", "raise")
    /\ Written("agent_analytics_kb.csv")
    /\ "play_id" \in pbp.cols
    /\ Written("agent_gm_kb.csv")
    /\ "otc_id" \in files["agent_gm_kb.csv"].cols

\* the season the policy gives for a date
PolicySeason(d) == IF d.month \in {1, 2} THEN d.year - 1 ELSE d.year

SeasonKeyed == {"import_pbp_data", "import_ngs_data.passing", "import_ngs_data.rushing",
                "import_ngs_data.receiving", "import_seasonal_pfr", "import_seasonal_rosters"}

\* C5: every season-keyed fetch of a run is passed the same season, the
\* calendar year from March on and the year before in January and February.
C5_SeasonPolicy ==
    \A i \in DOMAIN calls :
        calls[i][1] \in SeasonKeyed => calls[i][2] = PolicySeason(now)

AllNgsFetched ==
    /\ Happened("fetch", "passing", "ok")
    /\ Happened("fetch", "rushing", "ok")
    /\ Happened("fetch", "receiving", "ok")

\* rows lo+1 .. lo+Len(t.rows) of out are the rows of t, in order
HoldsRowsAt(out, lo, t) ==
    \A i \in DOMAIN t.rows : \A c \in t.cols : out.rows[lo + i][c] = t.rows[i][c]

\* C10: agent_scout_kb.csv is written only when all three next-gen fetches
\* succeeded; it then holds the passing rows, the rushing rows and the
\* receiving rows in that order and nothing else; with a failed next-gen fetch
\* the run writes no scout artifact.
C10_ScoutAllOrNothing ==
    /\ Written("agent_scout_kb.csv") =>
          LET out == files["agent_scout_kb.csv"]
          IN  /\ AllNgsFetched
              /\ Len(out.rows) = Len(ngs_pass.rows) + Len(ngs_rush.rows) + Len(ngs_rec.rows)
              /\ HoldsRowsAt(out, 0, ngs_pass)
              /\ HoldsRowsAt(out, Len(ngs_pass.rows), ngs_rush)
              /\ HoldsRowsAt(out, Len(ngs_pass.rows) + Len(ngs_rush.rows), ngs_rec)
    /\ (pc = "done" /\ ~AllNgsFetched) => ~Written("agent_scout_kb.csv")

C10_Witness ==
    /\ Written("agent_scout_kb.csv")
    /\ Len(ngs_pass.rows) = 1 /\ Len(ngs_rush.rows) = 1 /\ Len(ngs_rec.rows) = 1
    /\ Len(files["agent_scout_kb.csv"].rows) = 3

----------------------------------------------------------------------------
(* Properties of calculate_fantasy_points *)

Present(row) == \A f \in ScoreFields : row[f] # NullNum

OtherOrders ==
    {<<"rushing_yards", "receiving_yards", "passing_yards", "passing_tds", "interceptions",
       "rushing_tds", "receiving_tds", "fumbles_lost">>,
     <<"fumbles_lost", "receiving_tds", "receiving_yards", "rushing_tds", "rushing_yards",
       "interceptions", "passing_tds", "passing_yards">>,
     <<"passing_tds", "rushing_tds", "receiving_tds", "interceptions", "fumbles_lost",
       "passing_yards", "rushing_yards", "receiving_yards">>}

\* the score in hundredths, in exact arithmetic
Hundredths(row) ==
    4 * row["passing_yards"][1] + 400 * row["passing_tds"][1]
    - 200 * row["interceptions"][1] + 10 * row["rushing_yards"][1]
    + 600 * row["rushing_tds"][1] + 10 * row["receiving_yards"][1]
    + 600 * row["receiving_tds"][1] - 200 * row["fumbles_lost"][1]

\* |100 * x - h| < 2^-33: x is h / 100 up to the rounding of a few float64 operations
WithinRounding(x, h) ==
    LET diff == Add(MulInt(x, 100), Num(-h))
        m == IF diff[1] >= 0 THEN diff ELSE Neg(diff)
    IN  m[1] = 0 /\ m[2] = 0 /\ m[3] < 32

OthersUnchanged ==
    /\ returned.cols = pbp_df.cols \cup {"fantasy_points"}
    /\ Len(returned.rows) = Len(pbp_df.rows)
    /\ \A i \in DOMAIN pbp_df.rows : \A c \in pbp_df.cols \ {"fantasy_points"} :
          returned.rows[i][c] = pbp_df.rows[i][c]

----------------------------------------------------------------------------
(* Properties of aggregate_player_stats *)

RECURSIVE TotalPlays(_, _)
TotalPlays(rows, n) == IF n = 0 THEN 0 ELSE TotalPlays(rows, n - 1) + rows[n]["plays_involved"]

\* the directory entries for a player identifier; a null identifier has none
Entries(id) == {k \in DOMAIN player_df.rows : id # Null /\ player_df.rows[k]["player_id"] = id}

PairOf(row) == <<row["player_id"], row["player_name"]>>

Pairs == {PairOf(pbp_df.rows[j]) : j \in DOMAIN pbp_df.rows}

RECURSIVE PairSum(_, _, _)
PairSum(pair, c, n) ==
    IF n = 0 THEN 0
    ELSE PairSum(pair, c, n - 1)
         + (IF PairOf(pbp_df.rows[n]) = pair /\ pbp_df.rows[n][c] # NullNum
            THEN pbp_df.rows[n][c][1] ELSE 0)

PairCount(pair) == Cardinality({j \in DOMAIN pbp_df.rows : PairOf(pbp_df.rows[j]) = pair})

CarriesSums(out, pair) ==
    LET n == Len(pbp_df.rows)
    IN  /\ out["total_fantasy_points"] = Num(PairSum(pair, "fantasy_points", n))
        /\ out["total_passing_yards"] = Num(PairSum(pair, "passing_yards", n))
        /\ out["total_rushing_yards"] = Num(PairSum(pair, "rushing_yards", n))
        /\ out["total_receiving_yards"] = Num(PairSum(pair, "receiving_yards", n))
        /\ out["plays_involved"] = PairCount(pair)

====
